---- MODULE Spec2Model ----
(***************************************************************************)
(* Species demarcation stage of pyPGCF (pypgcf/species_demarcation.py):    *)
(* SpeciesDemarcator.assign_species stages a manifest, runs fastANI,       *)
(* filters its output into an edge list, runs the MCL toolchain            *)
(* (mcxload, mcl, mcxdump), cleans up and parses the cluster dump into the *)
(* final table.  The staging directory is modelled as the set of file      *)
(* names present in it; file contents are modelled for the files the code  *)
(* reads.  Text is modelled as sequences of one-character strings.         *)
(***************************************************************************)
EXTENDS Integers, Sequences, FiniteSets, TLC

\* ------------------------------------------------------------------------
\* Artifact names in the staging directory
\* ------------------------------------------------------------------------
Manifest == "FastANI_input.txt"
FastaniOut == "FastANI.tsv"
EdgeList == "fastANI_for_mcl.txt"
Mtrx == "fastANI_mcx_mtrx.txt"
Annot == "fastANI_annot.tab"
MclOut == "fastANI_mcl_out.txt"
Dump == "fastANI_mcx_dump.txt"
Clusters == "fastANI_clusters.tsv"
Xlsx == "FastANI_species_clusters.xlsx"

Artifacts == {Manifest, FastaniOut, EdgeList, Mtrx, Annot, MclOut, Dump, Clusters, Xlsx}

\* mutant of to_remove: the manifest is left behind
to_remove_no_manifest == {EdgeList, Mtrx, Annot, MclOut}

\* the files clean_mcl unlinks
to_remove == {EdgeList, Mtrx, Annot, MclOut, Manifest}

\* mutant of cmds: cluster dispatched before load
cmds_swapped == <<"mcl", "mcxload", "mcxdump">>

\* the three toolchain commands of run_mcl, in list order
cmds == <<"mcxload", "mcl", "mcxdump">>

\* the file(s) each external command is told to write
ToolOutputs(tool) ==
    CASE tool = "fastANI" -> {FastaniOut}
      [] tool = "mcxload" -> {Mtrx, Annot}
      [] tool = "mcl" -> {MclOut}
      [] tool = "mcxdump" -> {Dump}

\* ------------------------------------------------------------------------
\* Bounds
\* ------------------------------------------------------------------------
\* exit statuses an external command returns: 0 .. MaxExit
MaxExit == 1
\* number of files an earlier run may have left in the staging directory
MaxOld == 1
\* records in a FastANI.tsv / lines in a dump file during a pipeline run
MaxRunRecs == 1
\* entries directly under in_dir
MaxEntries == 2
MaxRunLines == 1
\* records in a FastANI.tsv for the filter specification
MaxRecs == 2
\* lines of a dump file and tokens per line for the parser specification
MaxLines == 2
MaxToks == 2
\* length of a token for the normalization specification
MaxTokLen == 4

ExitStatuses == 0..MaxExit

\* ------------------------------------------------------------------------
\* Text helpers (Python str.split, str.join, str)
\* ------------------------------------------------------------------------
Last(s) == s[Len(s)]
Front(s) == SubSeq(s, 1, Len(s) - 1)

\* s.split(sep): always at least one segment, empty segments kept
RECURSIVE Split(_, _)
Split(s, sep) ==
    IF \A i \in 1..Len(s) : s[i] # sep
    THEN <<s>>
    ELSE LET k == CHOOSE i \in 1..Len(s) :
                      s[i] = sep /\ \A j \in 1..(i - 1) : s[j] # sep
         IN <<SubSeq(s, 1, k - 1)>> \o Split(SubSeq(s, k + 1, Len(s)), sep)

\* sep.join(segs): the empty list joins to the empty string
RECURSIVE Join(_, _)
Join(segs, sep) ==
    IF segs = <<>> THEN <<>>
    ELSE IF Len(segs) = 1 THEN segs[1]
    ELSE segs[1] \o <<sep>> \o Join(Tail(segs), sep)

Digit(d) == <<"0", "1", "2", "3", "4", "5", "6", "7", "8", "9">>[d + 1]

\* str(n) for a non-negative integer
RECURSIVE Str(_)
Str(n) == IF n < 10 THEN <<Digit(n)>> ELSE Str(n \div 10) \o <<Digit(n % 10)>>

\* ------------------------------------------------------------------------
\* prepare_input_for_mcl: threshold filter on the fastANI output
\* ------------------------------------------------------------------------
\* numpy.nan, the marker the filter puts in the ANI column; not an ANI value
NaN == -1
AniThreshold == 95

\* mutant of ApplyThreshold: a similarity of exactly 95 is dropped too
ApplyThreshold_strict(df) ==
    [i \in 1..Len(df) |->
        [df[i] EXCEPT !.ANI = IF df[i].ANI <= AniThreshold THEN NaN ELSE df[i].ANI]]

\* df["ANI"].apply(lambda x: npnan if x < 95 else x)
ApplyThreshold(df) ==
    [i \in 1..Len(df) |->
        [df[i] EXCEPT !.ANI = IF df[i].ANI < AniThreshold THEN NaN ELSE df[i].ANI]]

HasNa(row) == row.ANI = NaN \/ row.query_length = NaN \/ row.target_length = NaN

\* mutant of DropNa: rows with a missing value are kept
DropNa_keep(df) == df

\* df.dropna(): rows holding a missing value are removed, order kept
DropNa(df) == SelectSeq(df, LAMBDA row : ~HasNa(row))

\* df.drop(columns=["query_length", "target_length"])
DropColumns(df) ==
    [i \in 1..Len(df) |->
        [query |-> df[i].query, target |-> df[i].target, ANI |-> df[i].ANI]]

\* the rows written to fastANI_for_mcl.txt for the rows read from FastANI.tsv
EdgesOf(df) == DropColumns(DropNa(ApplyThreshold(df)))

\* ------------------------------------------------------------------------
\* parse_mcx_output: dump lines -> genome / cluster label table
\* ------------------------------------------------------------------------
\* mutant of Put: an existing key keeps its first value
Put_keep_first(results, l, clust_num) ==
    [keys |-> IF l \in DOMAIN results.val THEN results.keys
              ELSE Append(results.keys, l),
     val |-> [k \in DOMAIN results.val \cup {l} |->
                 IF k \in DOMAIN results.val THEN results.val[k] ELSE clust_num]]

\* results[l] = clust_num on an insertion-ordered dict: a new key goes last,
\* an existing key keeps its place and takes the new value
Put(results, l, clust_num) ==
    [keys |-> IF l \in DOMAIN results.val THEN results.keys
              ELSE Append(results.keys, l),
     val |-> [k \in DOMAIN results.val \cup {l} |->
                 IF k = l THEN clust_num ELSE results.val[k]]]

\* for l in lines: results[l] = clust_num
RECURSIVE PutLine(_, _, _)
PutLine(results, lines, clust_num) ==
    IF lines = <<>> THEN results
    ELSE PutLine(Put(results, Head(lines), clust_num), Tail(lines), clust_num)

\* the reader loop: clust_num starts at 0 and grows by one per line read
RECURSIVE ReadDump(_, _, _)
ReadDump(results, rows, clust_num) ==
    IF rows = <<>> THEN results
    ELSE ReadDump(PutLine(results, Head(rows), clust_num), Tail(rows), clust_num + 1)

EmptyResults == [keys |-> <<>>, val |-> <<>>]

ResultsOf(rows) == ReadDump(EmptyResults, rows, 0)

\* mutant of StripDir: the directory part is kept
StripDir_keep(idx) == idx

\* df.index = [idx.split("/")[-1] for idx in df.index]
StripDir(idx) == Last(Split(idx, "/"))

\* mutant of StripExt: every extension segment is stripped
StripExt_all(idx) == Split(idx, ".")[1]

\* df.index = [".".join(idx.split(".")[:-1]) for idx in df.index]
StripExt(idx) == Join(Front(Split(idx, ".")), ".")

Normalize(idx) == StripExt(StripDir(idx))

\* "C" + str(x)
Label(x) == <<"C">> \o Str(x)

\* the data frame written to the table: one row per key of results, in
\* insertion order, indexed by the normalized key
TableOf(results) ==
    [i \in 1..Len(results.keys) |->
        [Genome |-> Normalize(results.keys[i]),
         FastANI_species |-> Label(results.val[results.keys[i]])]]

\* ------------------------------------------------------------------------
\* Input domains
\* ------------------------------------------------------------------------
SeqsUpTo(S, n) == UNION {[1..k -> S] : k \in 0..n}

\* entries that may be found directly under in_dir ("d/g.f", "d/g.a", "d/h.f")
GenomePaths ==
    {<<"d", "/", "g", ".", "f">>, <<"d", "/", "g", ".", "a">>, <<"d", "/", "h", ".", "f">>}

\* similarity values (0-100 scale) around the threshold, and a self hit
AniValues == {94, 95, 100}
FragCounts == {3}

\* five-column rows of FastANI.tsv over a set of genomes
Records(genomes) ==
    [query : genomes, target : genomes, ANI : AniValues,
     query_length : FragCounts, target_length : FragCounts]

\* dump files: up to n lines of up to MaxToks tab-separated tokens
Dumps(toks, n) == SeqsUpTo(SeqsUpTo(toks, MaxToks), n)

\* characters of a token: the two separators and a letter
Alphabet == {"/", ".", "g"}
Tokens(n) == SeqsUpTo(Alphabet, n)

\* the two documented tokens: "/a/b/genome1.fasta" and "genome2.fna.gz"
ExampleFasta ==
    <<"/", "a", "/", "b", "/", "g", "e", "n", "o", "m", "e", "1",
      ".", "f", "a", "s", "t", "a">>
ExampleGz ==
    <<"g", "e", "n", "o", "m", "e", "2", ".", "f", "n", "a", ".", "g", "z">>
ExampleTokens == {ExampleFasta, ExampleGz}

\* directory listings: entries in enumeration order, each entry once
Listings ==
    {l \in SeqsUpTo(GenomePaths, MaxEntries) :
        \A i, j \in 1..Len(l) : i # j => l[i] # l[j]}

Range(s) == {s[i] : i \in 1..Len(s)}

\* the labels of an edge list (what mcxload puts in the label table)
EdgeNodes(e) == {e[i].query : i \in 1..Len(e)} \cup {e[i].target : i \in 1..Len(e)}

\* ------------------------------------------------------------------------
\* State
\* ------------------------------------------------------------------------
VARIABLES
    pc,                 \* position in assign_species
    debug,              \* self.debug
    files_for_fastani,  \* the listing of in_dir
    files,              \* names present in the staging directory
    created,            \* names written by a stage of this run (history)
    checked,            \* names whose existence check has passed (history)
    extFiles,           \* files as the last external command left them
    dispatched,         \* commands given to execute_command, in order
    cmdIdx,             \* position of the loop of run_mcl in cmds
    err,                \* the exception that ended the run
    manifest,           \* lines of FastANI_input.txt
    fastani_tsv,        \* rows of FastANI.tsv read by prepare_input_for_mcl
    edges,              \* rows of fastANI_for_mcl.txt
    clusters,           \* lines of fastANI_clusters.tsv read by the parser
    results,            \* the dict built by parse_mcx_output
    table               \* rows of FastANI_species_clusters.xlsx

vars == <<pc, debug, files_for_fastani, files, created, checked, extFiles, dispatched,
          cmdIdx, err, manifest, fastani_tsv, edges, clusters, results, table>>

NoErr == [kind |-> "none", about |-> "none"]

\* checks.check_if_file_exists
check_if_file_exists(f, fs) == f \in fs

\* the command line handed to dispatchers.execute_command and its status
Command(tool, ret) == [tool |-> tool, quiet |-> ~debug, ret |-> ret]

Init ==
    /\ pc = "start"
    /\ debug \in BOOLEAN
    /\ files_for_fastani \in Listings
    /\ files \in {old \in SUBSET Artifacts : Cardinality(old) <= MaxOld}
    /\ created = {}
    /\ checked = {}
    /\ extFiles = files
    /\ dispatched = <<>>
    /\ cmdIdx = 0
    /\ err = NoErr
    /\ manifest = <<>>
    /\ fastani_tsv = <<>>
    /\ edges = <<>>
    /\ clusters = <<>>
    /\ results = EmptyResults
    /\ table = <<>>

\* ------------------------------------------------------------------------
\* assign_species, one action per stage
\* ------------------------------------------------------------------------
\* mutant of ManifestOf: the line terminator is not written
ManifestOf_no_newline(listing) == listing

\* f.write(str(file) + "\n") for every entry of the listing
ManifestOf(listing) == [i \in 1..Len(listing) |-> listing[i] \o <<"\n">>]

\* create_directories, glob, create_input_for_fastani and the check after it
CreateInputForFastani ==
    /\ pc = "start"
    /\ manifest' = ManifestOf(files_for_fastani)
    /\ files' = files \cup {Manifest}
    /\ created' = created \cup {Manifest}
    /\ IF ~check_if_file_exists(Manifest, files')
       THEN /\ pc' = "failed"
            /\ err' = [kind |-> "FileNotFoundError", about |-> Manifest]
            /\ checked' = checked
       ELSE /\ pc' = "fastani"
            /\ err' = err
            /\ checked' = checked \cup {Manifest}
    /\ UNCHANGED <<debug, files_for_fastani, extFiles, dispatched, cmdIdx,
                   fastani_tsv, edges, clusters, results, table>>

\* rows of FastANI.tsv: written by this run's fastANI over the genomes of
\* the manifest, or left by an earlier run over any genomes
FastaniRows(out, n) ==
    IF FastaniOut \in out
    THEN SeqsUpTo(Records(Range(files_for_fastani)), n)
    ELSE SeqsUpTo(Records(GenomePaths), n)

\* mutant of fastani_failed: the exit status is ignored
fastani_failed_ignored(ret) == FALSE

\* mutant of mcl_failed: the exit status is ignored
mcl_failed_ignored(ret) == FALSE

\* if ret != 0: raise RuntimeError
fastani_failed(ret) == ret # 0
mcl_failed(ret) == ret # 0

\* perform_fastani and the check after it
PerformFastani ==
    /\ pc = "fastani"
    /\ \E ret \in ExitStatuses, out \in SUBSET ToolOutputs("fastANI") :
        /\ dispatched' = Append(dispatched, Command("fastANI", ret))
        /\ files' = files \cup out
        /\ created' = created \cup out
        /\ extFiles' = files'
        /\ IF fastani_failed(ret)
           THEN /\ pc' = "failed"
                /\ err' = [kind |-> "RuntimeError", about |-> "fastANI"]
                /\ UNCHANGED <<fastani_tsv, checked>>
           ELSE IF ~check_if_file_exists(FastaniOut, files')
           THEN /\ pc' = "failed"
                /\ err' = [kind |-> "FileNotFoundError", about |-> FastaniOut]
                /\ UNCHANGED <<fastani_tsv, checked>>
           ELSE /\ pc' = "prepare"
                /\ err' = err
                /\ checked' = checked \cup {FastaniOut}
                /\ fastani_tsv' \in FastaniRows(out, MaxRunRecs)
    /\ UNCHANGED <<debug, files_for_fastani, cmdIdx, manifest, edges, clusters,
                   results, table>>

\* prepare_input_for_mcl and the check after it
PrepareInputForMcl ==
    /\ pc = "prepare"
    /\ edges' = EdgesOf(fastani_tsv)
    /\ files' = files \cup {EdgeList}
    /\ created' = created \cup {EdgeList}
    /\ IF ~check_if_file_exists(EdgeList, files')
       THEN /\ pc' = "failed"
            /\ err' = [kind |-> "FileNotFoundError", about |-> EdgeList]
            /\ UNCHANGED <<cmdIdx, checked>>
       ELSE /\ pc' = "run_mcl"
            /\ err' = err
            /\ cmdIdx' = 1
            /\ checked' = checked \cup {EdgeList}
    /\ UNCHANGED <<debug, files_for_fastani, extFiles, dispatched, manifest,
                   fastani_tsv, clusters, results, table>>

\* clean_mcl: unlink the intermediates (missing ones are skipped), then
\* rename the dump file, which raises when the dump file is absent
clean_mcl(fs) ==
    LET kept == fs \ to_remove
    IN IF Dump \in kept
       THEN [files |-> (kept \ {Dump}) \cup {Clusters}, raised |-> FALSE]
       ELSE [files |-> kept, raised |-> TRUE]


\* mutant of run_mcl_files: clean_mcl runs after the last command even when
\* it failed
run_mcl_files_always_clean(fs, ret, idx) ==
    IF idx < Len(cmds) THEN fs ELSE clean_mcl(fs).files

\* mutant of run_mcl_files: a failure outside debug mode discards the
\* intermediates
run_mcl_files_discard(fs, ret, idx) ==
    IF mcl_failed(ret) THEN (IF debug THEN fs ELSE fs \ to_remove)
    ELSE IF idx < Len(cmds) THEN fs
    ELSE clean_mcl(fs).files

\* the staging directory when one iteration of the loop of run_mcl is over:
\* fs is what the command left; clean_mcl runs after the last command only
\* and only when no command failed
run_mcl_files(fs, ret, idx) ==
    IF mcl_failed(ret) THEN fs
    ELSE IF idx < Len(cmds) THEN fs
    ELSE clean_mcl(fs).files

\* lines of fastANI_clusters.tsv: a dump written by this run through this
\* run's label table holds labels of the edge list; anything else is left
\* over from an earlier run
ClusterRows(made, n) ==
    IF {Annot, Dump} \subseteq made
    THEN Dumps(EdgeNodes(edges), n)
    ELSE Dumps(GenomePaths, n)

\* run_mcl, one iteration of its loop per step; the last iteration goes on
\* to clean_mcl and to the check after run_mcl
RunMcl ==
    /\ pc = "run_mcl"
    /\ \E ret \in ExitStatuses, out \in SUBSET ToolOutputs(cmds[cmdIdx]) :
        /\ dispatched' = Append(dispatched, Command(cmds[cmdIdx], ret))
        /\ extFiles' = files \cup out
        /\ files' = run_mcl_files(files \cup out, ret, cmdIdx)
        /\ created' = created \cup out \cup
                        (IF Clusters \in files' \ (files \cup out) /\ Dump \in created \cup out
                         THEN {Clusters} ELSE {})
        /\ IF mcl_failed(ret)
           THEN /\ pc' = "failed"
                /\ err' = [kind |-> "RuntimeError", about |-> "MCL"]
                /\ UNCHANGED <<cmdIdx, clusters, checked>>
           ELSE IF cmdIdx < Len(cmds)
           THEN /\ pc' = pc
                /\ err' = err
                /\ cmdIdx' = cmdIdx + 1
                /\ UNCHANGED <<clusters, checked>>
           ELSE IF clean_mcl(files \cup out).raised
           THEN /\ pc' = "failed"
                /\ err' = [kind |-> "FileNotFoundError", about |-> Dump]
                /\ UNCHANGED <<cmdIdx, clusters, checked>>
           ELSE IF ~check_if_file_exists(Clusters, files')
           THEN /\ pc' = "failed"
                /\ err' = [kind |-> "FileNotFoundError", about |-> Clusters]
                /\ UNCHANGED <<cmdIdx, clusters, checked>>
           ELSE /\ pc' = "parse"
                /\ err' = err
                /\ cmdIdx' = cmdIdx
                /\ checked' = checked \cup {Clusters}
                /\ clusters' \in ClusterRows(created', MaxRunLines)
    /\ UNCHANGED <<debug, files_for_fastani, manifest, fastani_tsv, edges,
                   results, table>>

\* mutant of parse_files: the table is written before the cluster file is
\* unlinked, so a failed write leaves the cluster file
parse_files_write_first(fs, ok, partial) ==
    IF ok THEN (fs \ {Clusters}) \cup {Xlsx}
    ELSE fs \cup (IF partial THEN {Xlsx} ELSE {})

\* the staging directory after fastani_from_mcl.unlink() and df.to_excel:
\* a write that raises may already have opened (and so created) the file
parse_files(fs, ok, partial) ==
    IF ok THEN (fs \ {Clusters}) \cup {Xlsx}
    ELSE (fs \ {Clusters}) \cup (IF partial THEN {Xlsx} ELSE {})

\* parse_mcx_output: df.columns = ["ClustNum"] raises on a frame built from
\* an empty dict, before the cluster file is unlinked; df.to_excel either
\* writes the table or raises (no Excel engine, I/O error)
ParseMcxOutput ==
    /\ pc = "parse"
    /\ results' = ResultsOf(clusters)
    /\ IF results'.keys = <<>>
       THEN /\ pc' = "failed"
            /\ err' = [kind |-> "ValueError", about |-> "ClustNum"]
            /\ UNCHANGED <<files, created, table>>
       ELSE \E ok \in BOOLEAN, partial \in BOOLEAN :
            /\ ok => ~partial
            /\ files' = parse_files(files, ok, partial)
            /\ IF ok
               THEN /\ table' = TableOf(results')
                    /\ created' = created \cup {Xlsx}
                    /\ pc' = "done"
                    /\ err' = err
               ELSE /\ pc' = "failed"
                    /\ err' = [kind |-> "OSError", about |-> Xlsx]
                    /\ UNCHANGED <<created, table>>
    /\ UNCHANGED <<debug, files_for_fastani, checked, extFiles, dispatched,
                   cmdIdx, manifest, fastani_tsv, edges, clusters>>

Next ==
    \/ CreateInputForFastani
    \/ PerformFastani
    \/ PrepareInputForMcl
    \/ RunMcl
    \/ ParseMcxOutput

Spec == Init /\ [][Next]_vars

\* ------------------------------------------------------------------------
\* Stage specifications: the pipeline entered at a stage, with that stage's
\* input drawn from a larger domain than the full pipeline can afford
\* ------------------------------------------------------------------------
\* the state in which prepare_input_for_mcl is entered in a fresh staging
\* directory: manifest written, fastANI exited 0 and wrote FastANI.tsv
InitTail ==
    /\ pc = "prepare"
    /\ debug \in BOOLEAN
    /\ files_for_fastani \in Listings
    /\ files = {Manifest, FastaniOut}
    /\ created = files
    /\ checked = files
    /\ extFiles = files
    /\ dispatched = <<Command("fastANI", 0)>>
    /\ cmdIdx = 0
    /\ err = NoErr
    /\ manifest = ManifestOf(files_for_fastani)
    /\ fastani_tsv \in SeqsUpTo(Records(Range(files_for_fastani)), MaxRecs)
    /\ edges = <<>>
    /\ clusters = <<>>
    /\ results = EmptyResults
    /\ table = <<>>

NextTail ==
    \/ PrepareInputForMcl
    \/ RunMcl
    \/ ParseMcxOutput

SpecTail == InitTail /\ [][NextTail]_vars

\* fastANI rows reporting every genome of a listing identical to itself
SelfHits(listing) ==
    [i \in 1..Len(listing) |->
        [query |-> listing[i], target |-> listing[i], ANI |-> 100,
         query_length |-> 3, target_length |-> 3]]

\* the state in which parse_mcx_output is entered when the cluster file
\* holds one of the given dumps: all four commands exited 0, clean_mcl ran,
\* the genomes are the tokens of the dump
ParseEntry(dumps) ==
    /\ pc = "parse"
    /\ debug \in BOOLEAN
    /\ clusters \in dumps
    /\ files_for_fastani = ResultsOf(clusters).keys
    /\ files = {FastaniOut, Clusters}
    /\ created = {Manifest, FastaniOut, EdgeList, Mtrx, Annot, MclOut, Dump, Clusters}
    /\ checked = {Manifest, FastaniOut, EdgeList, Clusters}
    /\ extFiles = {Manifest, FastaniOut, EdgeList, Mtrx, Annot, MclOut, Dump}
    /\ dispatched = <<Command("fastANI", 0), Command("mcxload", 0),
                      Command("mcl", 0), Command("mcxdump", 0)>>
    /\ cmdIdx = Len(cmds)
    /\ err = NoErr
    /\ manifest = ManifestOf(files_for_fastani)
    /\ fastani_tsv = SelfHits(files_for_fastani)
    /\ edges = EdgesOf(fastani_tsv)
    /\ results = EmptyResults
    /\ table = <<>>

\* dump files over the genome paths
InitParse == ParseEntry(Dumps(GenomePaths, MaxLines))

NextParse == ParseMcxOutput

SpecParse == InitParse /\ [][NextParse]_vars

\* dump files holding one token: any string over the alphabet, or one of
\* the documented tokens
InitNorm ==
    ParseEntry({<< <<tok>> >> : tok \in Tokens(MaxTokLen) \cup ExampleTokens})

NextNorm == ParseMcxOutput

SpecNorm == InitNorm /\ [][NextNorm]_vars

\* ------------------------------------------------------------------------
\* Properties of the pipeline (specification Spec)
\* ------------------------------------------------------------------------
MclTools == {"mcxload", "mcl", "mcxdump"}

DispatchedTools == {dispatched[i].tool : i \in 1..Len(dispatched)}

FastaniReturnedNonZero ==
    \E i \in 1..Len(dispatched) :
        dispatched[i].tool = "fastANI" /\ dispatched[i].ret # 0

\* C1: when the fastANI command returns a non-zero status the run ends with
\* a RuntimeError, this run creates no edge list, no loaded matrix and no
\* output table, and no MCL toolchain command is dispatched.
C1_FastaniFailureEndsRun ==
    FastaniReturnedNonZero =>
        /\ pc = "failed"
        /\ err.kind = "RuntimeError"
        /\ created \cap {EdgeList, Mtrx, Xlsx} = {}
        /\ DispatchedTools \cap MclTools = {}

C1_Witness ==
    /\ FastaniReturnedNonZero
    /\ pc = "failed"
    /\ FastaniOut \in created

DispatchOrder == <<"fastANI", "mcxload", "mcl", "mcxdump">>

\* C2: the commands dispatched so far are a prefix of fastANI, mcxload, mcl,
\* mcxdump (fixed order, each at most once), every command before the last
\* dispatched one exited 0, and a non-zero status of the last one has ended
\* the run with a RuntimeError.
C2_SequentialDispatch ==
    /\ Len(dispatched) <= Len(DispatchOrder)
    /\ \A i \in 1..Len(dispatched) :
        /\ dispatched[i].tool = DispatchOrder[i]
        /\ i < Len(dispatched) => dispatched[i].ret = 0
        /\ dispatched[i].ret # 0 => pc = "failed" /\ err.kind = "RuntimeError"

C2_Witness ==
    /\ Len(dispatched) = 4
    /\ dispatched[4].ret # 0
    /\ pc = "failed"

\* C3: whenever the run is about to dispatch the next command or to enter
\* the next stage, the output artifact of the external stage just finished
\* exists; a stage that left no output has aborted the run instead.
C3_OutputCheckedAfterEveryStage ==
    /\ pc = "prepare" => FastaniOut \in files
    /\ pc = "run_mcl" /\ cmdIdx >= 2 => Mtrx \in files
    /\ pc = "run_mcl" /\ cmdIdx >= 3 => MclOut \in files
    /\ pc = "parse" => Clusters \in files

Intermediates == {Manifest, EdgeList, Mtrx, Annot, MclOut, Dump, Clusters}

\* C4: after a successful full run the staging directory holds FastANI.tsv
\* and the final table and none of the intermediates (manifest, edge list,
\* matrix, label table, raw cluster output, dump file, cluster file).
C4_CleanupAfterSuccess ==
    pc = "done" =>
        /\ {FastaniOut, Xlsx} \subseteq files
        /\ files \cap Intermediates = {}

C4_Witness ==
    /\ pc = "done"
    /\ {Manifest, EdgeList, Mtrx, Annot, MclOut, Dump} \subseteq created

MclFailed == pc = "failed" /\ err = [kind |-> "RuntimeError", about |-> "MCL"]

\* C5: when a toolchain command of run_mcl returns non-zero, the staging
\* directory is exactly as that command left it: nothing was deleted and
\* the dump file was not renamed to the cluster file.
C5_NoCleanupOnFailure ==
    MclFailed =>
        /\ files = extFiles
        /\ Clusters \notin created

C5_Witness ==
    /\ MclFailed
    /\ Len(dispatched) = 4
    /\ {Mtrx, Annot, MclOut, Dump} \subseteq files

\* C6 (as claimed): when a toolchain stage fails outside debug mode, the
\* intermediates are gone when the error reaches the caller.
C6_DiscardedOutsideDebug ==
    MclFailed /\ ~debug => files \cap to_remove = {}

\* C6 (amended): when a toolchain stage fails, the manifest, the edge list
\* and every intermediate this run's commands wrote are still in the
\* staging directory, in debug mode and outside it alike.
C6_IntermediatesLeftInPlace ==
    MclFailed =>
        /\ {Manifest, EdgeList} \subseteq files
        /\ created \cap to_remove \subseteq files

C6_Witness ==
    /\ MclFailed
    /\ ~debug
    /\ to_remove \subseteq files

\* ------------------------------------------------------------------------
\* Properties of the threshold filter (specification SpecTail)
\* ------------------------------------------------------------------------
Triple(r) == [query |-> r.query, target |-> r.target, ANI |-> r.ANI]

Occurrences(s, x) == Cardinality({i \in 1..Len(s) : s[i] = x})

ReadOccurrences(t) ==
    Cardinality({i \in 1..Len(fastani_tsv) : Triple(fastani_tsv[i]) = t})

\* C7: once the edge list is written, it holds a record for a record read
\* from FastANI.tsv exactly when that record's similarity is >= 95 (as many
\* times as the record was read), nothing else, and every written record
\* has just the three fields query, target and similarity.
C7_ThresholdFilter ==
    EdgeList \in created =>
        /\ \A i \in 1..Len(edges) :
            /\ DOMAIN edges[i] = {"query", "target", "ANI"}
            /\ edges[i].ANI >= 95
            /\ ReadOccurrences(edges[i]) > 0
        /\ \A j \in 1..Len(fastani_tsv) :
            Occurrences(edges, Triple(fastani_tsv[j])) =
                IF fastani_tsv[j].ANI >= 95
                THEN ReadOccurrences(Triple(fastani_tsv[j]))
                ELSE 0

C7_Witness ==
    /\ EdgeList \in created
    /\ \E i, j \in 1..Len(fastani_tsv) :
        fastani_tsv[i].ANI = 95 /\ fastani_tsv[j].ANI = 94
    /\ Len(edges) = 1

\* a record >= 95 between g and another genome
SimilarToOther(g) ==
    \E i \in 1..Len(fastani_tsv) :
        /\ fastani_tsv[i].ANI >= 95
        /\ \/ fastani_tsv[i].query = g /\ fastani_tsv[i].target # g
           \/ fastani_tsv[i].target = g /\ fastani_tsv[i].query # g

\* a record >= 95 naming g at all, its comparison with itself included
SimilarToAny(g) ==
    \E i \in 1..Len(fastani_tsv) :
        /\ fastani_tsv[i].ANI >= 95
        /\ fastani_tsv[i].query = g \/ fastani_tsv[i].target = g

SelfSimilar(g) ==
    \E i \in 1..Len(fastani_tsv) :
        /\ fastani_tsv[i].ANI >= 95
        /\ fastani_tsv[i].query = g /\ fastani_tsv[i].target = g

\* the dump file and the label table it was translated with are this run's
FreshDump == {Annot, Dump} \subseteq created

CName(n) == <<"C", <<"0", "1", "2", "3", "4", "5", "6", "7", "8", "9">>[n + 1]>>

OnLine(t, i) == t \in Range(clusters[i])

\* the last line (counted from 1) holding token t
LastLine(t) ==
    CHOOSE i \in 1..Len(clusters) :
        OnLine(t, i) /\ \A j \in (i + 1)..Len(clusters) : ~OnLine(t, j)

\* C8 (as claimed): every token on line i of the dump file (from 0) has the
\* label "C" followed by i.
C8_LabelIsLineIndex ==
    pc = "done" =>
        \A i \in 1..Len(clusters) : \A k \in 1..Len(table) :
            OnLine(results.keys[k], i) => table[k].FastANI_species = CName(i - 1)

\* C8 (amended): every token of the dump file has one row, and its label is
\* "C" followed by the index (from 0) of the last line on which it occurs.
C8_LabelIsLastLineIndex ==
    pc = "done" =>
        /\ Len(table) = Len(results.keys)
        /\ \A i \in 1..Len(clusters) : \A t \in Range(clusters[i]) :
            /\ Occurrences(results.keys, t) = 1
            /\ \A k \in 1..Len(table) :
                results.keys[k] = t =>
                    table[k].FastANI_species = CName(LastLine(t) - 1)

C8_Witness ==
    /\ pc = "done"
    /\ \E i, j \in 1..Len(clusters) :
        i < j /\ \E t \in Range(clusters[i]) : OnLine(t, j)

LastDot(n) ==
    CHOOSE i \in 1..Len(n) : n[i] = "." /\ \A j \in (i + 1)..Len(n) : n[j] # "."

\* n without its last "."-separated segment; empty when n has no "."
CutExt(n) == IF "." \notin Range(n) THEN <<>> ELSE SubSeq(n, 1, LastDot(n) - 1)

\* C10 (as claimed): normalizing an already normalized identifier returns
\* it unchanged.
C10_NormalizeIdempotent ==
    pc = "done" =>
        \A k \in 1..Len(table) : Normalize(table[k].Genome) = table[k].Genome

\* C10 (amended): a normalized identifier holds no "/", and normalizing it
\* again removes its last "."-separated segment once more (leaving the
\* empty string when it has no "."); it is unchanged only when it is empty.
C10_NormalizeStripsAgain ==
    pc = "done" =>
        \A k \in 1..Len(table) :
            /\ "/" \notin Range(table[k].Genome)
            /\ Normalize(table[k].Genome) = CutExt(table[k].Genome)
            /\ Normalize(table[k].Genome) = table[k].Genome <=> table[k].Genome = <<>>

C10_Witness ==
    /\ pc = "done"
    /\ \E k \in 1..Len(table) :
        /\ "." \in Range(table[k].Genome)
        /\ "/" \in Range(results.keys[k])

\* ------------------------------------------------------------------------
\* Further properties of the pipeline (specification Spec)
\* ------------------------------------------------------------------------
AllExitedZero ==
    /\ Len(dispatched) = Len(DispatchOrder)
    /\ \A i \in 1..Len(dispatched) : dispatched[i].ret = 0

\* C11: the final table is written by this run only when all four commands
\* exited 0 and the four existence checks (manifest, FastANI.tsv, edge
\* list, cluster file) passed; a run that ended with an error has not
\* written the table.
C11_TableOnlyAfterAllStages ==
    /\ Xlsx \in created =>
        /\ AllExitedZero
        /\ checked = {Manifest, FastaniOut, EdgeList, Clusters}
        /\ pc = "done"
    /\ pc = "failed" => Xlsx \notin created /\ table = <<>>

C11_Witness ==
    /\ Xlsx \in created
    /\ table # <<>>
    /\ AllExitedZero

\* C12: no normalized genome identifier is the index of more than one row
\* of the final table.
C12_UniqueIdentifiers ==
    pc = "done" =>
        \A i, j \in 1..Len(table) : i # j => table[i].Genome # table[j].Genome

\* C13: once written, the manifest has one line per entry of the listing
\* of the input directory, in listing order: the entry's path followed by
\* a newline, every entry exactly once.
C13_ManifestLines ==
    Manifest \in created =>
        /\ Len(manifest) = Len(files_for_fastani)
        /\ \A i \in 1..Len(manifest) :
            /\ Len(manifest[i]) >= 1
            /\ manifest[i][Len(manifest[i])] = "\n"
            /\ SubSeq(manifest[i], 1, Len(manifest[i]) - 1) = files_for_fastani[i]
            /\ files_for_fastani[i] \in GenomePaths
        /\ \A e \in Range(files_for_fastani) :
            Occurrences(manifest, e \o <<"\n">>) = 1

C13_Witness ==
    /\ Manifest \in created
    /\ Len(manifest) = 2
    /\ Len(files_for_fastani) = 2

LastSlash(t) ==
    CHOOSE i \in 1..Len(t) : t[i] = "/" /\ \A j \in (i + 1)..Len(t) : t[j] # "/"

\* the part of t after its last "/"; all of t when it has no "/"
AfterLastSlash(t) ==
    IF "/" \notin Range(t) THEN t ELSE SubSeq(t, LastSlash(t) + 1, Len(t))

\* C14: the index of every row is the row's token cut after its last "/"
\* and then before its last "." (earlier dot segments stay), the label of
\* the row is the one the reader gave the token, and the two documented
\* tokens give "genome1" and "genome2.fna".
C14_RowIndex ==
    pc = "done" =>
        \A k \in 1..Len(table) :
            /\ table[k].Genome = CutExt(AfterLastSlash(results.keys[k]))
            /\ table[k].FastANI_species = CName(results.val[results.keys[k]])
            /\ results.keys[k] = ExampleFasta =>
                table[k].Genome = <<"g", "e", "n", "o", "m", "e", "1">>
            /\ results.keys[k] = ExampleGz =>
                table[k].Genome =
                    <<"g", "e", "n", "o", "m", "e", "2", ".", "f", "n", "a">>

C14_Witness ==
    /\ pc = "done"
    /\ results.keys = <<ExampleGz>>
    /\ Len(table) = 1

MclAllExitedZero ==
    /\ AllExitedZero
    /\ \A i \in 2..Len(dispatched) : dispatched[i].tool \in MclTools

\* C15: the existence check after run_mcl never fails, and when the three
\* toolchain commands exited 0 without this run producing the dump file
\* the run has aborted, with the manifest, edge list, matrix, label table
\* and raw cluster output already deleted.
C15_AbortAfterCleanup ==
    /\ err # [kind |-> "FileNotFoundError", about |-> Clusters]
    /\ pc \in {"parse", "done"} => Clusters \in checked
    /\ MclAllExitedZero /\ Dump \notin created =>
        /\ pc = "failed"
        /\ files \cap to_remove = {}

TableWriteFailed == pc = "failed" /\ err = [kind |-> "OSError", about |-> Xlsx]

C17_CheckedWasCreated == checked \subseteq created

====
